---- MODULE Spec2Model ----
(***************************************************************************)
(* Model of the nginx access-log parser: app/parser.py (the command-line   *)
(* driver, parse_nginx_log and out_to_json_file), app/lib/__init__.py      *)
(* (validate_entry, validate_ip_address) and app/lib/statsd_client.py      *)
(* (start_client).                                                         *)
(*                                                                         *)
(* Texts are modelled as sequences of one-character strings, so that the   *)
(* conversions of the code (int(), the ipaddress round trip, unquote,      *)
(* split) are computed and not assumed.  An IP address text is the record  *)
(* [sep, hi, dc, lo]: the groups before and after an optional "::" and the *)
(* separator that the text uses; a group is the number its digits spell.   *)
(***************************************************************************)
EXTENDS Integers, Sequences, FiniteSets, TLC

VARIABLES
    pc,                  \* position of the command-line run
    input_file,          \* the lines of the file named by --in
    in_isfile,           \* os.path.isfile(arguments.input_file)
    top_client_ips,      \* arguments.top_client_ips   (--max-client-ips)
    top_path_avg_seconds,\* arguments.top_path_avg_seconds (--max-paths)
    pos,                 \* lines already yielded by the file iterator
    results,             \* the results dict of parse_nginx_log
    nginx_ips,           \* dict address -> count, in insertion order
    url_load_times,      \* dict path -> {count, total_ms_load_time}, in insertion order
    outcome,             \* per line read: which branch of try/except/else ran
    metrics,             \* what became of start_client / client.incr
    traceback,           \* the exception that left parse_nginx_log uncaught, or ""
    output_file,         \* "absent", "empty" (touched) or "json" (results dumped)
    exit_code,           \* <<>> while running, <<n>> once the process has ended
    fn_in,               \* argument of the function applied in SpecIp / SpecCode
    fn_out               \* its return value, <<>> before the call

vars == <<pc, input_file, in_isfile, top_client_ips, top_path_avg_seconds, pos,
          results, nginx_ips, url_load_times, outcome, metrics, traceback,
          output_file, exit_code, fn_in, fn_out>>

pipeline_vars == <<pc, input_file, in_isfile, top_client_ips, top_path_avg_seconds,
                   pos, results, nginx_ips, url_load_times, outcome, metrics,
                   traceback, output_file, exit_code>>

(***************************************************************************)
(* Bounds of the model.                                                    *)
(***************************************************************************)
MaxLines == 3
MaxTop == 2
MaxAddrGroups == 8
MaxCodeLen == 4

(***************************************************************************)
(* Generic helpers.                                                        *)
(***************************************************************************)
SeqsUpTo(S, n) == UNION {[1..k -> S] : k \in 0..n}

RECURSIVE SumSeq(_)
SumSeq(s) == IF s = <<>> THEN 0 ELSE Head(s) + SumSeq(Tail(s))

\* Python's False, as returned by validate_entry and validate_ip_address.
False == [falsy |-> TRUE]

(***************************************************************************)
(* int(text): decimal digits with an optional sign; ValueError otherwise.  *)
(***************************************************************************)
DigitChars == <<"0", "1", "2", "3", "4", "5", "6", "7", "8", "9">>

IsDigit(c) == \E i \in DOMAIN DigitChars : DigitChars[i] = c

DigitVal(c) == (CHOOSE i \in DOMAIN DigitChars : DigitChars[i] = c) - 1

AllDigits(s) == Len(s) >= 1 /\ \A i \in DOMAIN s : IsDigit(s[i])

RECURSIVE DigitsValue(_)
DigitsValue(s) ==
    IF s = <<>> THEN 0
    ELSE DigitsValue(SubSeq(s, 1, Len(s) - 1)) * 10 + DigitVal(s[Len(s)])

\* [ok |-> FALSE] stands for ValueError.
PyInt(s) ==
    IF AllDigits(s) THEN [ok |-> TRUE, val |-> DigitsValue(s)]
    ELSE IF Len(s) >= 2 /\ s[1] \in {"-", "+"} /\ AllDigits(Tail(s))
         THEN [ok |-> TRUE,
               val |-> IF s[1] = "-" THEN 0 - DigitsValue(Tail(s))
                       ELSE DigitsValue(Tail(s))]
         ELSE [ok |-> FALSE]

(***************************************************************************)
(* ipaddress.ip_address(text), int(), ip_address(int), str().              *)
(* The integer of an address is kept as its eight 16-bit groups.           *)
(***************************************************************************)
GroupCount == 8
OctetCount == 4
OctetLimit == 256
HextetLimit == 65536

V4Text(octets) == [sep |-> ".", hi |-> octets, dc |-> FALSE, lo |-> <<>>]
V6Text(hi, dc, lo) == [sep |-> ":", hi |-> hi, dc |-> dc, lo |-> lo]

IsIPv4Text(a) ==
    /\ a.sep = "."
    /\ ~a.dc
    /\ Len(a.hi) = OctetCount
    /\ \A i \in DOMAIN a.hi : a.hi[i] \in 0..(OctetLimit - 1)

IsIPv6Text(a) ==
    /\ a.sep = ":"
    /\ \A i \in DOMAIN a.hi : a.hi[i] \in 0..(HextetLimit - 1)
    /\ \A i \in DOMAIN a.lo : a.lo[i] \in 0..(HextetLimit - 1)
    /\ IF a.dc THEN Len(a.hi) + Len(a.lo) <= GroupCount - 1
       ELSE Len(a.hi) = GroupCount /\ a.lo = <<>>

Zeros(n) == [i \in 1..n |-> 0]

\* int(ipaddress.ip_address(address))
AddressInt(a) ==
    IF IsIPv4Text(a)
    THEN Zeros(GroupCount - 2) \o
         <<a.hi[1] * OctetLimit + a.hi[2], a.hi[3] * OctetLimit + a.hi[4]>>
    ELSE IF a.dc
         THEN a.hi \o Zeros(GroupCount - Len(a.hi) - Len(a.lo)) \o a.lo
         ELSE a.hi

\* Length of the run of zero groups starting at position i.
RECURSIVE ZeroRun(_, _)
ZeroRun(g, i) ==
    IF i > Len(g) \/ g[i] # 0 THEN 0 ELSE 1 + ZeroRun(g, i + 1)

\* str(IPv6Address): the leftmost longest run of two or more zero groups
\* becomes "::".
CompressHextets(g) ==
    LET best == CHOOSE i \in DOMAIN g :
                    /\ \A j \in DOMAIN g : ZeroRun(g, j) <= ZeroRun(g, i)
                    /\ \A j \in 1..(i - 1) : ZeroRun(g, j) < ZeroRun(g, i)
        n == ZeroRun(g, best)
    IN IF n >= 2
       THEN V6Text(SubSeq(g, 1, best - 1), TRUE, SubSeq(g, best + n, Len(g)))
       ELSE V6Text(g, FALSE, <<>>)

\* str(ipaddress.ip_address(ip_int)): an integer below 2^32 is an IPv4Address.
IntToAddressText(g) ==
    IF \A i \in 1..(GroupCount - 2) : g[i] = 0
    THEN V4Text(<<g[GroupCount - 1] \div OctetLimit, g[GroupCount - 1] % OctetLimit,
                  g[GroupCount] \div OctetLimit, g[GroupCount] % OctetLimit>>)
    ELSE CompressHextets(g)

validate_ip_address(address) ==
    IF ~(IsIPv4Text(address) \/ IsIPv6Text(address)) THEN False
    ELSE IntToAddressText(AddressInt(address))

(***************************************************************************)
(* datetime.datetime.strptime(date, '%d/%b/%Y:%H:%M:%S %z').               *)
(* A date text is [d, b, Y, H, M, S, z]: the numbers its digit fields      *)
(* spell, the month name, and the offset [sign, hh, mm].                   *)
(***************************************************************************)
MonthNames == <<"Jan", "Feb", "Mar", "Apr", "May", "Jun",
                "Jul", "Aug", "Sep", "Oct", "Nov", "Dec">>

IsLeap(y) == y % 4 = 0 /\ (y % 100 # 0 \/ y % 400 = 0)

DaysIn(b, y) ==
    IF b = "Feb" THEN (IF IsLeap(y) THEN 29 ELSE 28)
    ELSE IF b \in {"Apr", "Jun", "Sep", "Nov"} THEN 30 ELSE 31

\* TRUE when strptime returns, FALSE when it raises ValueError.
StrptimeOk(date) ==
    /\ \E i \in DOMAIN MonthNames : MonthNames[i] = date.b
    /\ date.Y \in 1..9999
    /\ date.d \in 1..DaysIn(date.b, date.Y)
    /\ date.H \in 0..23
    /\ date.M \in 0..59
    /\ date.S \in 0..61
    /\ date.z.sign \in {"+", "-"}
    /\ date.z.hh \in 0..99
    /\ date.z.mm \in 0..59

(***************************************************************************)
(* unquote(http_path).split('?')[0].  A path is a sequence of tokens: a    *)
(* plain character, or a percent escape such as "%20".                     *)
(***************************************************************************)
UnquoteToken(t) ==
    IF t = "%20" THEN " "
    ELSE IF t = "%3F" THEN "?"
    ELSE IF t = "%2F" THEN "/"
    ELSE t

Unquote(p) == [i \in DOMAIN p |-> UnquoteToken(p[i])]

RECURSIVE BeforeFirst(_, _)
BeforeFirst(p, c) ==
    IF p = <<>> \/ Head(p) = c THEN <<>>
    ELSE <<Head(p)>> \o BeforeFirst(Tail(p), c)

NormalizePath(p) == BeforeFirst(Unquote(p), "?")

(***************************************************************************)
(* validate_entry: the field checks, in the order of the code.             *)
(***************************************************************************)
HttpVerbs == { <<"C","O","N","N","E","C","T">>, <<"D","E","L","E","T","E">>,
               <<"G","E","T">>, <<"H","E","A","D">>,
               <<"O","P","T","I","O","N","S">>, <<"P","A","T","C","H">>,
               <<"P","O","S","T">>, <<"P","U","T">>, <<"T","R","A","C","E">> }

StatusMin == 100
StatusEnd == 600
StatusLen == 3

RemoteAddrOk(entry) == validate_ip_address(entry.remote_addr) # False

DateOk(entry) == StrptimeOk(entry.date)

VerbOk(entry) == entry.http_verb \in HttpVerbs

\* ResponseCodeOk without the length test.
ResponseCodeOk_NoLength(entry) ==
    LET n == PyInt(entry.http_response_code)
    IN n.ok /\ n.val \in StatusMin..(StatusEnd - 1)

ResponseCodeOk(entry) ==
    LET n == PyInt(entry.http_response_code)
    IN /\ n.ok
       /\ ~(n.val \notin StatusMin..(StatusEnd - 1)
            \/ Len(entry.http_response_code) # StatusLen)

ResponseTimeOk(entry) ==
    LET n == PyInt(entry.http_response_time_milliseconds)
    IN n.ok /\ ~(n.val < 0)

\* validate_entry without the http_verb check.
validate_entry_NoVerbCheck(entry) ==
    IF ~RemoteAddrOk(entry) THEN False
    ELSE IF ~DateOk(entry) THEN False
    ELSE IF ~ResponseCodeOk(entry) THEN False
    ELSE IF ~ResponseTimeOk(entry) THEN False
    ELSE [remote_addr |-> validate_ip_address(entry.remote_addr),
          date |-> entry.date,
          http_verb |-> entry.http_verb,
          http_path |-> NormalizePath(entry.http_path),
          http_version |-> entry.http_version,
          http_response_code |-> entry.http_response_code,
          http_response_time_milliseconds |->
              PyInt(entry.http_response_time_milliseconds).val]

validate_entry(entry) ==
    IF ~RemoteAddrOk(entry) THEN False
    ELSE IF ~DateOk(entry) THEN False
    ELSE IF ~VerbOk(entry) THEN False
    ELSE IF ~ResponseCodeOk(entry) THEN False
    ELSE IF ~ResponseTimeOk(entry) THEN False
    ELSE [remote_addr |-> validate_ip_address(entry.remote_addr),
          date |-> entry.date,
          http_verb |-> entry.http_verb,
          http_path |-> NormalizePath(entry.http_path),
          http_version |-> entry.http_version,
          http_response_code |-> entry.http_response_code,
          http_response_time_milliseconds |->
              PyInt(entry.http_response_time_milliseconds).val]

(***************************************************************************)
(* The structural pattern of parse_nginx_log.  A raw line is its candidate *)
(* captures plus `shape`: whether the literal delimiters of the pattern    *)
(* (' - ', ' [', '] "', the quotes and the single spaces) are all there.   *)
(***************************************************************************)
WordChars == {"A", "C", "D", "E", "G", "H", "I", "L", "N", "O", "P", "R",
              "S", "T", "U", "g", "e", "t", "_"} \cup
             {DigitChars[i] : i \in DOMAIN DigitChars}

IsWord(s) == Len(s) >= 1 /\ \A i \in DOMAIN s : s[i] \in WordChars

VersionMatches(v) == v.prefix = "HTTP/" /\ AllDigits(v.major) /\ AllDigits(v.minor)

\* re.match(...): the groupdict, or None (modelled as False) when the line
\* does not match.
ParseEntry(line) ==
    IF /\ line.shape
       /\ IsWord(line.http_verb)
       /\ VersionMatches(line.http_version)
       /\ AllDigits(line.http_response_code)
       /\ AllDigits(line.http_response_time_milliseconds)
    THEN [remote_addr |-> line.remote_addr,
          date |-> line.date,
          http_verb |-> line.http_verb,
          http_path |-> line.http_path,
          http_version |-> line.http_version,
          http_response_code |-> line.http_response_code,
          http_response_time_milliseconds |-> line.http_response_time_milliseconds]
    ELSE False

\* The try/except/else of the loop body: "ok" or "failed".
Classify(line) ==
    IF ParseEntry(line) = False THEN "failed"
    ELSE IF validate_entry(ParseEntry(line)) = False THEN "failed"
    ELSE "ok"

(***************************************************************************)
(* The two tallies are Python dicts: sequences of entries in insertion     *)
(* order, no key twice.                                                    *)
(***************************************************************************)
HasKey(d, k) == \E i \in DOMAIN d : d[i].k = k

Lookup(d, k) == d[CHOOSE i \in DOMAIN d : d[i].k = k]

\* nginx_ips: get() is truthy for a count other than 0.
CountClient(d, k) ==
    IF HasKey(d, k) /\ Lookup(d, k).v # 0
    THEN [i \in DOMAIN d |-> IF d[i].k = k THEN [d[i] EXCEPT !.v = @ + 1] ELSE d[i]]
    ELSE IF HasKey(d, k)
         THEN [i \in DOMAIN d |-> IF d[i].k = k THEN [d[i] EXCEPT !.v = 1] ELSE d[i]]
         ELSE Append(d, [k |-> k, v |-> 1])

\* AddLoadTime assigning the load time where the code adds it.
AddLoadTime_Overwrite(d, k, ms) ==
    IF HasKey(d, k)
    THEN [i \in DOMAIN d |->
            IF d[i].k = k
            THEN [d[i] EXCEPT !.count = @ + 1, !.total_ms_load_time = ms]
            ELSE d[i]]
    ELSE Append(d, [k |-> k, count |-> 1, total_ms_load_time |-> ms])

\* url_load_times: get() is truthy for any stored (non-empty) dict.
AddLoadTime(d, k, ms) ==
    IF HasKey(d, k)
    THEN [i \in DOMAIN d |->
            IF d[i].k = k
            THEN [d[i] EXCEPT !.count = @ + 1,
                              !.total_ms_load_time = @ + ms]
            ELSE d[i]]
    ELSE Append(d, [k |-> k, count |-> 1, total_ms_load_time |-> ms])

(***************************************************************************)
(* sorted(items, key=lambda x: x[1], reverse=True): a stable sort, so      *)
(* items of equal value keep the order they had.                           *)
(***************************************************************************)
\* InsertDesc putting an item before the items of equal value.
RECURSIVE InsertDesc_TiesReversed(_, _)
InsertDesc_TiesReversed(x, s) ==
    IF s = <<>> THEN <<x>>
    ELSE IF Head(s).v > x.v THEN <<Head(s)>> \o InsertDesc_TiesReversed(x, Tail(s))
    ELSE <<x>> \o s

RECURSIVE InsertDesc(_, _)
InsertDesc(x, s) ==
    IF s = <<>> THEN <<x>>
    ELSE IF Head(s).v >= x.v THEN <<Head(s)>> \o InsertDesc(x, Tail(s))
    ELSE <<x>> \o s

RECURSIVE SortedDesc(_)
SortedDesc(items) ==
    IF items = <<>> THEN <<>>
    ELSE InsertDesc(items[Len(items)], SortedDesc(SubSeq(items, 1, Len(items) - 1)))

\* items[0:n + 1]
Slice_OneMore(items, n) ==
    SubSeq(items, 1, IF n + 1 < Len(items) THEN n + 1 ELSE Len(items))

\* items[0:n]
Slice(items, n) == SubSeq(items, 1, IF n < Len(items) THEN n ELSE Len(items))

TopN(items, n) == Slice(SortedDesc(items), n)

(***************************************************************************)
(* round(total / count / 1000, 2), in hundredths of a second.              *)
(* The quotient is a double; round() rounds the exact value of that double *)
(* (ties to even).  total/(10*count) is halfway between two hundredths     *)
(* only when total/count is an integer m ending in 5; then the double      *)
(* nearest to m/1000 lies above or below m/1000 according to the remainder *)
(* of m * 2^s by 1000, s being the scaling of its 53-bit significand.      *)
(***************************************************************************)
MsPerSecond == 1000
SignificandBits == 52

RECURSIVE Pow2(_)
Pow2(n) == IF n = 0 THEN 1 ELSE 2 * Pow2(n - 1)

RECURSIVE Pow2Mod(_, _)
Pow2Mod(n, q) == IF n = 0 THEN 1 % q ELSE (2 * Pow2Mod(n - 1, q)) % q

\* s with 2^52 <= m * 2^s / 1000 < 2^53, for m >= 1.
Scaling(m) ==
    IF m < MsPerSecond
    THEN SignificandBits + (CHOOSE t \in 0..10 :
                               /\ m * Pow2(t) >= MsPerSecond
                               /\ \A u \in 0..(t - 1) : m * Pow2(u) < MsPerSecond)
    ELSE SignificandBits - (CHOOSE u \in 0..20 :
                               /\ m >= MsPerSecond * Pow2(u)
                               /\ m < MsPerSecond * Pow2(u + 1))

HalfwayRoundsUp(m, k) ==
    LET r == (m * Pow2Mod(Scaling(m), MsPerSecond)) % MsPerSecond
    IN IF r = 0 THEN k % 2 = 1 ELSE r > MsPerSecond \div 2

\* AverageSeconds cutting the third decimal off instead of rounding.
AverageSeconds_Truncated(total, count) == total \div (10 * count)

AverageSeconds(total, count) ==
    LET d == 10 * count
        k == total \div d
        rem == total % d
    IN IF 2 * rem < d THEN k
       ELSE IF 2 * rem > d THEN k + 1
       ELSE IF HalfwayRoundsUp(total \div count, k) THEN k + 1 ELSE k

average_load_times(d) ==
    [i \in DOMAIN d |->
        [k |-> d[i].k, v |-> AverageSeconds(d[i].total_ms_load_time, d[i].count)]]

(***************************************************************************)
(* Inputs.  SampleLines is the alphabet of the multi-line files; FieldMix  *)
(* varies every field of a single line independently.                      *)
(***************************************************************************)
GoodDate == [d |-> 10, b |-> "Oct", Y |-> 2000, H |-> 13, M |-> 55, S |-> 36,
             z |-> [sign |-> "-", hh |-> 7, mm |-> 0]]

\* 31/Feb/2000:13:55:36 -0700
BadDate == [GoodDate EXCEPT !.d = 31, !.b = "Feb"]

Http11 == [prefix |-> "HTTP/", major |-> <<"1">>, minor |-> <<"1">>]

\* "HTTP/1." : no minor version
HttpBad == [prefix |-> "HTTP/", major |-> <<"1">>, minor |-> <<>>]

Get == <<"G", "E", "T">>
Post == <<"P", "O", "S", "T">>

Line(addr, verb, path, code, ms) ==
    [shape |-> TRUE, remote_addr |-> addr, date |-> GoodDate, http_verb |-> verb,
     http_path |-> path, http_version |-> Http11, http_response_code |-> code,
     http_response_time_milliseconds |-> ms]

Addr1 == V4Text(<<0, 0, 0, 1>>)                       \* 0.0.0.1
Addr2 == V4Text(<<10, 0, 0, 2>>)                      \* 10.0.0.2
AddrLoopback6 == V6Text(<<>>, TRUE, <<1>>)            \* ::1
AddrFull6 == V6Text(<<1, 0, 0, 0, 0, 0, 0, 1>>, FALSE, <<>>)  \* 1:0:0:0:0:0:0:1
AddrBad == V4Text(<<999, 999, 999, 999>>)             \* 999.999.999.999

SampleLines ==
    { Line(Addr1, Get, <<"/", "a">>, <<"2", "0", "0">>, <<"5", "0", "0">>),
      Line(AddrLoopback6, Get, <<"/", "a", "?", "x">>, <<"2", "0", "0">>,
           <<"1", "5", "0", "0">>),
      Line(Addr2, Post, <<"/", "b">>, <<"4", "0", "4">>, <<"5">>),
      Line(AddrFull6, Get, <<"/", "a", "%20", "b">>, <<"5", "9", "9">>, <<"1", "5">>),
      Line(Addr2, Get, <<"/", "c">>, <<"9", "9">>, <<"7">>),
      [Line(Addr1, Get, <<"/", "e">>, <<"2", "0", "0">>, <<"7">>) EXCEPT !.shape = FALSE] }

FieldMix ==
    [shape : BOOLEAN,
     remote_addr : {Addr2, AddrFull6, AddrBad},
     date : {GoodDate, BadDate},
     http_verb : {Get, <<"g", "e", "t">>, <<"G", "-", "T">>},
     http_path : {<<"/", "a", "%3F", "b">>},
     http_version : {Http11, HttpBad},
     http_response_code : {<<"2", "0", "0">>, <<"0", "2", "0", "0">>, <<"6", "0", "0">>},
     http_response_time_milliseconds : {<<"0">>, <<"-", "5">>}]

Files == (SeqsUpTo(SampleLines, MaxLines)) \cup {<<l>> : l \in FieldMix}

EmptyResults ==
    [total_number_of_lines_processed |-> 0,
     total_number_of_lines_ok |-> 0,
     total_number_of_lines_failed |-> 0,
     top_client_ips |-> <<>>,
     top_path_avg_seconds |-> <<>>]

(***************************************************************************)
(* The command-line run.                                                   *)
(***************************************************************************)
Init ==
    /\ pc = "main"
    /\ in_isfile \in BOOLEAN
    /\ input_file \in (IF in_isfile THEN Files ELSE {<<>>})
    /\ top_client_ips \in 0..MaxTop
    /\ top_path_avg_seconds \in 0..MaxTop
    /\ pos = 0
    /\ results = EmptyResults
    /\ nginx_ips = <<>>
    /\ url_load_times = <<>>
    /\ outcome = <<>>
    /\ metrics = "none"
    /\ traceback = ""
    /\ output_file = "absent"
    /\ exit_code = <<>>
    /\ fn_in = <<>>
    /\ fn_out = <<>>

Exit(n) == pc' = "done" /\ exit_code' = <<n>>

\* __main__: parse_args and the isfile check; sys.exit(1) on either failure.
CheckInput ==
    /\ pc = "main"
    /\ \E parse_args_ok \in BOOLEAN :
          IF parse_args_ok /\ in_isfile
          THEN pc' = "check_out" /\ UNCHANGED exit_code
          ELSE Exit(1)
    /\ UNCHANGED <<input_file, in_isfile, top_client_ips, top_path_avg_seconds, pos,
                   results, nginx_ips, url_load_times, outcome, metrics, traceback,
                   output_file, fn_in, fn_out>>

\* __main__: mkdir of the output directory and touch of the output file.
CheckOutput ==
    /\ pc = "check_out"
    /\ \E os_error \in BOOLEAN :
          IF os_error
          THEN Exit(1) /\ UNCHANGED output_file
          ELSE pc' = "loop" /\ output_file' = "empty" /\ UNCHANGED exit_code
    /\ UNCHANGED <<input_file, in_isfile, top_client_ips, top_path_avg_seconds, pos,
                   results, nginx_ips, url_load_times, outcome, metrics, traceback,
                   fn_in, fn_out>>

\* CountLine with the except branch forgetting its counter.
CountLine_FailedNotCounted(res, cls) ==
    IF cls = "failed"
    THEN [res EXCEPT !.total_number_of_lines_processed = @ + 1]
    ELSE [res EXCEPT !.total_number_of_lines_processed = @ + 1,
                     !.total_number_of_lines_ok = @ + 1]

\* The counters of one iteration: processed always, then failed (the except
\* branch) or ok (the else branch).
CountLine(res, cls) ==
    IF cls = "failed"
    THEN [res EXCEPT !.total_number_of_lines_processed = @ + 1,
                     !.total_number_of_lines_failed = @ + 1]
    ELSE [res EXCEPT !.total_number_of_lines_processed = @ + 1,
                     !.total_number_of_lines_ok = @ + 1]

\* parse_nginx_log: one iteration of the loop over the lines of the file.
ReadLine ==
    /\ pc = "loop"
    /\ pos < Len(input_file)
    /\ LET entry == input_file[pos + 1]
           cls == Classify(entry)
           log_object == validate_entry(ParseEntry(entry))
       IN /\ pos' = pos + 1
          /\ outcome' = Append(outcome, cls)
          /\ results' = CountLine(results, cls)
          /\ IF cls = "failed"
             THEN UNCHANGED <<nginx_ips, url_load_times>>
             ELSE /\ nginx_ips' = CountClient(nginx_ips, log_object.remote_addr)
                  /\ url_load_times' =
                        AddLoadTime(url_load_times, log_object.http_path,
                                    log_object.http_response_time_milliseconds)
    /\ UNCHANGED <<pc, input_file, in_isfile, top_client_ips, top_path_avg_seconds,
                   metrics, traceback, output_file, exit_code, fn_in, fn_out>>

\* parse_nginx_log: the two top-N views, once the file is exhausted.
Finalize ==
    /\ pc = "loop"
    /\ pos = Len(input_file)
    /\ results' = [results EXCEPT
            !.top_client_ips = TopN(nginx_ips, top_client_ips),
            !.top_path_avg_seconds =
                TopN(average_load_times(url_load_times), top_path_avg_seconds)]
    /\ pc' = "statsd"
    \* `nginx_ips = None` and `url_load_times = None` only drop the references;
    \* nothing reads the names afterwards, and the model keeps the tallies.
    /\ UNCHANGED <<input_file, in_isfile, top_client_ips, top_path_avg_seconds, pos,
                   nginx_ips, url_load_times, outcome, metrics, traceback,
                   output_file, exit_code, fn_in, fn_out>>

\* What start_client() does with os.getenv('STATSD_SERVER'): None has no
\* split(), a value without ':' has no second element, and the client's
\* constructor resolves the host.
StartClientOutcomes == {"AttributeError", "IndexError", "gaierror", "ok"}

\* parse_nginx_log: start_client(), the two incr() calls, return results.
\* An exception here is caught nowhere: the interpreter prints the traceback
\* and the process ends with status 1.
ReportMetrics ==
    /\ pc = "statsd"
    /\ \E o \in StartClientOutcomes :
          /\ metrics' = o
          /\ IF o = "ok"
             THEN pc' = "write" /\ UNCHANGED <<traceback, exit_code>>
             ELSE traceback' = o /\ Exit(1)
    /\ UNCHANGED <<input_file, in_isfile, top_client_ips, top_path_avg_seconds, pos,
                   results, nginx_ips, url_load_times, outcome, output_file,
                   fn_in, fn_out>>

\* WriteStatus ignoring what out_to_json_file returned.
WriteStatus_Ignored(written) == 0

\* The end of __main__: sys.exit(2) when out_to_json_file returned False,
\* status 0 otherwise.
WriteStatus(written) == IF ~written THEN 2 ELSE 0

\* out_to_json_file (open, json.dumps, print) and the end of __main__.
WriteOutput ==
    /\ pc = "write"
    /\ \E written \in BOOLEAN :
          /\ output_file' = IF written THEN "json" ELSE output_file
          /\ Exit(WriteStatus(written))
    /\ UNCHANGED <<input_file, in_isfile, top_client_ips, top_path_avg_seconds, pos,
                   results, nginx_ips, url_load_times, outcome, metrics, traceback,
                   fn_in, fn_out>>

Next == CheckInput \/ CheckOutput \/ ReadLine \/ Finalize \/ ReportMetrics \/ WriteOutput

Spec == Init /\ [][Next]_vars

(***************************************************************************)
(* validate_ip_address applied to every address text within the bounds.    *)
(***************************************************************************)
PipelineIdle ==
    /\ in_isfile = FALSE
    /\ input_file = <<>>
    /\ top_client_ips = 0
    /\ top_path_avg_seconds = 0
    /\ pos = 0
    /\ results = EmptyResults
    /\ nginx_ips = <<>>
    /\ url_load_times = <<>>
    /\ outcome = <<>>
    /\ metrics = "none"
    /\ traceback = ""
    /\ output_file = "absent"
    /\ exit_code = <<>>

OctetSamples == {0, 1, 255, 256}
HextetSamples == {0, 1, 65536}

IsAddrText(a) ==
    \/ \E n \in (OctetCount - 1)..(OctetCount + 1) :
          \E o \in [1..n -> OctetSamples] : a = V4Text(o)
    \/ \E h \in SeqsUpTo(HextetSamples, MaxAddrGroups) :
          \/ a = V6Text(h, FALSE, <<>>)
          \/ \E l \in SeqsUpTo(HextetSamples, MaxAddrGroups - Len(h)) :
                a = V6Text(h, TRUE, l)

InitIp ==
    /\ pc = "ip"
    /\ PipelineIdle
    /\ IsAddrText(fn_in)
    /\ fn_out = <<>>

CallValidateIp ==
    /\ pc = "ip"
    /\ fn_out = <<>>
    /\ fn_out' = <<validate_ip_address(fn_in)>>
    /\ UNCHANGED <<fn_in, pipeline_vars>>

NextIp == CallValidateIp

SpecIp == InitIp /\ [][NextIp]_vars

(***************************************************************************)
(* validate_entry applied to an otherwise valid entry, for every digit     *)
(* string within the bounds as its response code.                          *)
(***************************************************************************)
Digits == {DigitChars[i] : i \in DOMAIN DigitChars}

CodeTexts == UNION {[1..n -> Digits] : n \in 1..MaxCodeLen}

EntryWithCode(code) ==
    ParseEntry(Line(Addr2, Get, <<"/", "a">>, code, <<"0">>))

InitCode ==
    /\ pc = "code"
    /\ PipelineIdle
    /\ fn_in \in CodeTexts
    /\ fn_out = <<>>

CallValidateEntry ==
    /\ pc = "code"
    /\ fn_out = <<>>
    /\ fn_out' = <<validate_entry(EntryWithCode(fn_in))>>
    /\ UNCHANGED <<fn_in, pipeline_vars>>

NextCode == CallValidateEntry

SpecCode == InitCode /\ [][NextCode]_vars

(***************************************************************************)
(* C6.  For every valid IPv4 or IPv6 address text, validate_ip_address     *)
(* returns the canonical short text of that address in the family of the   *)
(* input (an IPv6 input, ::1 included, comes back as its shortened IPv6    *)
(* form); an invalid text gives False.                                     *)
(***************************************************************************)
ShortForm(a) ==
    IF a.sep = "." THEN V4Text(a.hi)
    ELSE CompressHextets(IF a.dc
                         THEN a.hi \o Zeros(GroupCount - Len(a.hi) - Len(a.lo)) \o a.lo
                         ELSE a.hi)

C6_CanonicalSameFamily ==
    (pc = "ip" /\ fn_out # <<>>) =>
        IF IsIPv4Text(fn_in) \/ IsIPv6Text(fn_in)
        THEN fn_out[1] = ShortForm(fn_in)
        ELSE fn_out[1] = False

(***************************************************************************)
(* C7.  A digit string used as the response code of an otherwise valid     *)
(* line is accepted exactly when it has 3 characters and spells a number   *)
(* in 100..599, that is when it has 3 digits of which the first is 1..5;   *)
(* "100" and "599" are accepted, "99", "0200", "099" and "600" rejected.   *)
(***************************************************************************)
Accepted == fn_out # <<>> /\ fn_out[1] # False

C7_ThreeDigitCodeInRange ==
    (pc = "code" /\ fn_out # <<>>) =>
        /\ Accepted <=> (Len(fn_in) = 3 /\ fn_in[1] \in {"1", "2", "3", "4", "5"})
        /\ fn_in \in {<<"1", "0", "0">>, <<"5", "9", "9">>} => Accepted
        /\ fn_in \in {<<"9", "9">>, <<"0", "2", "0", "0">>, <<"0", "9", "9">>,
                      <<"6", "0", "0">>} => ~Accepted

C7_Witness ==
    pc = "code" /\ fn_in = <<"5", "9", "9">> /\ Accepted

(***************************************************************************)
(* What the input says, read off the lines consumed so far.                *)
(***************************************************************************)
Min(a, b) == IF a < b THEN a ELSE b

SetMin(S) == CHOOSE x \in S : \A y \in S : x <= y

OkIdx == {i \in 1..pos : outcome[i] = "ok"}

MsAt(i) == PyInt(input_file[i].http_response_time_milliseconds).val

RECURSIVE SumMs(_)
SumMs(I) ==
    IF I = {} THEN 0
    ELSE LET i == CHOOSE j \in I : TRUE IN MsAt(i) + SumMs(I \ {i})

\* The validated entry of each of the first n lines, False for a failed line.
RECURSIVE EntriesUpTo(_)
EntriesUpTo(n) ==
    IF n = 0 THEN <<>>
    ELSE Append(EntriesUpTo(n - 1),
                IF outcome[n] = "ok" THEN validate_entry(ParseEntry(input_file[n]))
                ELSE False)

\* In the operators below E is EntriesUpTo(pos).
ClientIdx(E, k) == {i \in DOMAIN E : E[i] # False /\ E[i].remote_addr = k}
PathIdx(E, k) == {i \in DOMAIN E : E[i] # False /\ E[i].http_path = k}

ClientKeys(E) == {E[i].remote_addr : i \in {j \in DOMAIN E : E[j] # False}}
PathKeys(E) == {E[i].http_path : i \in {j \in DOMAIN E : E[j] # False}}

Requests(E, k) == Cardinality(ClientIdx(E, k))
PathAverage(E, k) == AverageSeconds(SumMs(PathIdx(E, k)), Cardinality(PathIdx(E, k)))

KeysOf(top) == {top[i].k : i \in DOMAIN top}

\* parse_nginx_log is past its loop and has built both views.
Finalized == pc \in {"statsd", "write"} \/ (pc = "done" /\ metrics # "none")

\* parse_nginx_log has returned its result to __main__.
Returned == metrics = "ok"

(***************************************************************************)
(* C1.  After every line handled, and in the returned result, the number   *)
(* of lines processed is the number of ok lines plus the number of failed  *)
(* lines, and is the number of lines read so far.                          *)
(***************************************************************************)
C1_CountersAddUp ==
    /\ results.total_number_of_lines_processed =
          results.total_number_of_lines_ok + results.total_number_of_lines_failed
    /\ results.total_number_of_lines_processed = pos

C1_Witness ==
    /\ Returned
    /\ results.total_number_of_lines_processed = MaxLines
    /\ results.total_number_of_lines_ok >= 1
    /\ results.total_number_of_lines_failed >= 1

(***************************************************************************)
(* C2.  A failure to report the counters to the metrics service does not   *)
(* fail the pipeline: parse_nginx_log still returns its result, no         *)
(* exception leaves it, and the run goes on to write the output.           *)
(***************************************************************************)
C2_MetricsFailureAbsorbed ==
    metrics \notin {"none", "ok"} =>
        /\ traceback = ""
        /\ pc \in {"write", "done"}
        /\ pc = "done" => exit_code \in {<<0>>, <<2>>}

(***************************************************************************)
(* C3.  Every line is classified once, in order: ok exactly when it        *)
(* matches the structural pattern and passes every field check, failed     *)
(* otherwise; no line raises out of the loop or stops it, so the loop ends *)
(* only when every line has been processed.                                *)
(***************************************************************************)
PassesEveryCheck(line) ==
    /\ ParseEntry(line) # False
    /\ RemoteAddrOk(line)
    /\ DateOk(line)
    /\ VerbOk(line)
    /\ ResponseCodeOk(line)
    /\ ResponseTimeOk(line)

C3_EachLineClassifiedOnce ==
    /\ Len(outcome) = pos
    /\ \A i \in 1..pos :
          /\ outcome[i] \in {"ok", "failed"}
          /\ outcome[i] = "ok" <=> PassesEveryCheck(input_file[i])
    /\ results.total_number_of_lines_ok = Cardinality(OkIdx)
    /\ results.total_number_of_lines_failed = pos - Cardinality(OkIdx)
    /\ pc = "loop" => traceback = "" /\ exit_code = <<>>
    /\ Finalized => pos = Len(input_file)

C3_Witness ==
    /\ Finalized
    /\ pos = MaxLines
    /\ outcome[1] = "failed"
    /\ ParseEntry(input_file[1]) # False
    /\ outcome[2] = "failed"
    /\ ParseEntry(input_file[2]) = False
    /\ outcome[3] = "ok"

(***************************************************************************)
(* C4.  Each top-N view holds at most min(N, number of distinct keys)      *)
(* entries, in descending order of the ranking value, and no key left out  *)
(* has a strictly greater value than a key in the view; N = 0 gives the    *)
(* empty view.                                                             *)
(***************************************************************************)
Descending(top) == \A i, j \in DOMAIN top : i < j => top[i].v >= top[j].v

C4_TopNBounded ==
    Finalized =>
        LET E == EntriesUpTo(pos)
            ips == results.top_client_ips
            paths == results.top_path_avg_seconds
        IN /\ Len(ips) <= Min(top_client_ips, Cardinality(ClientKeys(E)))
           /\ Len(paths) <= Min(top_path_avg_seconds, Cardinality(PathKeys(E)))
           /\ \A i \in DOMAIN ips :
                 ips[i].k \in ClientKeys(E) /\ ips[i].v = Requests(E, ips[i].k)
           /\ \A i \in DOMAIN paths :
                 paths[i].k \in PathKeys(E) /\ paths[i].v = PathAverage(E, paths[i].k)
           /\ Descending(ips)
           /\ Descending(paths)
           /\ \A k \in ClientKeys(E) \ KeysOf(ips) :
                 \A i \in DOMAIN ips : Requests(E, k) <= ips[i].v
           /\ \A k \in PathKeys(E) \ KeysOf(paths) :
                 \A i \in DOMAIN paths : PathAverage(E, k) <= paths[i].v
           /\ top_client_ips = 0 => ips = <<>>
           /\ top_path_avg_seconds = 0 => paths = <<>>

C4_Witness ==
    /\ Finalized
    /\ Cardinality(ClientKeys(EntriesUpTo(pos))) = 3
    /\ Cardinality(PathKeys(EntriesUpTo(pos))) = 3
    /\ Len(results.top_client_ips) = 2
    /\ Len(results.top_path_avg_seconds) = 1
    /\ results.top_path_avg_seconds[1].v > 1

(***************************************************************************)
(* C5.  Among keys of equal ranking value the key whose first valid line   *)
(* comes earlier in the input ranks first, and the same rule decides which *)
(* of them survive the cut at N; each view is thus fixed by the input.     *)
(***************************************************************************)
FirstClient(E, k) == SetMin(ClientIdx(E, k))
FirstPath(E, k) == SetMin(PathIdx(E, k))

C5_TiesByFirstOccurrence ==
    Finalized =>
        LET E == EntriesUpTo(pos)
            ips == results.top_client_ips
            paths == results.top_path_avg_seconds
        IN /\ Len(ips) = Min(top_client_ips, Cardinality(ClientKeys(E)))
           /\ Len(paths) = Min(top_path_avg_seconds, Cardinality(PathKeys(E)))
           /\ KeysOf(ips) \subseteq ClientKeys(E)
           /\ KeysOf(paths) \subseteq PathKeys(E)
           /\ \A i, j \in DOMAIN ips :
                 (i < j /\ Requests(E, ips[i].k) = Requests(E, ips[j].k))
                     => FirstClient(E, ips[i].k) < FirstClient(E, ips[j].k)
           /\ \A i, j \in DOMAIN paths :
                 (i < j /\ PathAverage(E, paths[i].k) = PathAverage(E, paths[j].k))
                     => FirstPath(E, paths[i].k) < FirstPath(E, paths[j].k)
           /\ \A k \in ClientKeys(E) \ KeysOf(ips) : \A i \in DOMAIN ips :
                 Requests(E, k) = Requests(E, ips[i].k)
                     => FirstClient(E, ips[i].k) < FirstClient(E, k)
           /\ \A k \in PathKeys(E) \ KeysOf(paths) : \A i \in DOMAIN paths :
                 PathAverage(E, k) = PathAverage(E, paths[i].k)
                     => FirstPath(E, paths[i].k) < FirstPath(E, k)

\* Three clients with one request each and N = 2, three paths of which two
\* have the same average and N = 2: both ties are cut.
C5_Witness ==
    LET E == EntriesUpTo(pos)
    IN /\ Finalized
       /\ Cardinality(ClientKeys(E)) = 3
       /\ \A k \in ClientKeys(E) : Requests(E, k) = 1
       /\ Len(results.top_client_ips) = 2
       /\ Len(results.top_path_avg_seconds) = 2
       /\ \E k \in PathKeys(E) \ KeysOf(results.top_path_avg_seconds) :
             PathAverage(E, k) = results.top_path_avg_seconds[2].v

(***************************************************************************)
(* C8.  The value reported for a path is the sum of the response times of  *)
(* its valid lines, divided by their number and by 1000, rounded to 2      *)
(* decimals: the hundredth of a second nearest to that quotient.  Two      *)
(* lines of 500 ms and 1500 ms give 1.00.                                  *)
(***************************************************************************)
Abs(x) == IF x < 0 THEN 0 - x ELSE x

C8_AverageRounded ==
    Finalized =>
        LET E == EntriesUpTo(pos)
        IN \A i \in DOMAIN results.top_path_avg_seconds :
              LET I == PathIdx(E, results.top_path_avg_seconds[i].k)
                  v == results.top_path_avg_seconds[i].v
                  sum == SumMs(I)
                  n == Cardinality(I)
              IN /\ n >= 1
                 /\ 2 * Abs(v * 10 * n - sum) <= 10 * n
                 /\ (n = 2 /\ {MsAt(j) : j \in I} = {500, 1500}) => v = 100

C8_Witness ==
    /\ Finalized
    /\ \E i \in DOMAIN results.top_path_avg_seconds :
          LET I == PathIdx(EntriesUpTo(pos), results.top_path_avg_seconds[i].k)
          IN /\ Cardinality(I) = 2
             /\ {MsAt(j) : j \in I} = {500, 1500}
             /\ results.top_path_avg_seconds[i].v = 100

(***************************************************************************)
(* C9.  The run ends with status 1 when the input is no file or the output *)
(* file cannot be created, with status 2 when writing the output fails,    *)
(* with status 0 when the output was written; status 0 comes only after    *)
(* the whole input was consumed and the result written.                    *)
(***************************************************************************)
C9_ExitCodes ==
    /\ pc = "done" <=> exit_code # <<>>
    /\ pc = "done" =>
          /\ ~in_isfile => exit_code = <<1>>
          /\ output_file = "absent" => exit_code = <<1>>
          /\ (Returned /\ output_file # "json") => exit_code = <<2>>
          /\ output_file = "json" => exit_code = <<0>>
          /\ exit_code = <<0>> =>
                /\ in_isfile
                /\ pos = Len(input_file)
                /\ Finalized
                /\ Returned
                /\ output_file = "json"
    /\ output_file = "json" => pc = "done"

C9_Witness ==
    /\ pc = "done"
    /\ exit_code = <<0>>
    /\ pos = MaxLines
    /\ output_file = "json"

(***************************************************************************)
(* C10.  After every line handled, the request counts of the client tally  *)
(* and the counts of the path tally each add up to the number of ok lines, *)
(* and the load times add up to the response times of the ok lines; a line *)
(* counted failed leaves both tallies as they were.                        *)
(***************************************************************************)
TallySums ==
    /\ SumSeq([i \in DOMAIN nginx_ips |-> nginx_ips[i].v]) =
          results.total_number_of_lines_ok
    /\ SumSeq([i \in DOMAIN url_load_times |-> url_load_times[i].count]) =
          results.total_number_of_lines_ok
    /\ SumSeq([i \in DOMAIN url_load_times |-> url_load_times[i].total_ms_load_time]) =
          SumMs(OkIdx)

FailedLineKeepsTallies ==
    (pos' = pos + 1 /\ outcome'[pos'] = "failed")
        => UNCHANGED <<nginx_ips, url_load_times>>

C10_TalliesMatchOkLines == []TallySums /\ [][FailedLineKeepsTallies]_vars

C10_Witness ==
    /\ pc = "loop"
    /\ pos = MaxLines
    /\ outcome[MaxLines] = "failed"
    /\ results.total_number_of_lines_ok = 2
    /\ Len(url_load_times) = 1
    /\ url_load_times[1].total_ms_load_time = 2000

====
